---- MODULE Spec2Model ----
(***************************************************************************)
(* InsightPDF: the task store (backend/services/task_service.py), the      *)
(* batch orchestrator execute_analysis_task_batch and the CSV result sink. *)
(*                                                                         *)
(* The service runs on one asyncio event loop: a coroutine runs without    *)
(* interruption between two awaits, so every action below is the code      *)
(* between two suspension points of a handler.                             *)
(***************************************************************************)
EXTENDS Integers, Sequences, FiniteSets, TLC

\* ------------------------------------------------------------------ bounds
MaxImages == 2      \* longest image list of an analysis task
MaxQ      == 1      \* most questions one image yields
MaxBatch  == 2      \* largest batch_size passed to execute
MaxWork   == 4      \* most images handed to the extractor over all execute calls
MaxSel    == 1      \* longest selected_image_indices list of a request
MaxRecords == 2     \* most records in one response of the vision backend

\* ------------------------------------------------------------- identifiers
AnalysisIds == {"a1"}          \* uuid4 values handed out to analysis tasks
UploadIds   == {"u1"}          \* uuid4 values handed out to upload tasks
Workers     == {"w1", "w2"}    \* concurrent execute calls (coroutines)
\* the image lists handed to create_analysis_task: page_001.png .. page_n.png
ImageLists  == {[k \in 1 .. n |-> k] : n \in 0 .. MaxImages}
BatchSizes  == 1 .. MaxBatch

\* Optional[int] = None, Optional[str] = None
None    == -1
NoneStr == "<None>"

\* TaskStatus (schemas.py)
PENDING    == "pending"
PROCESSING == "processing"
COMPLETED  == "completed"
FAILED     == "failed"
CANCELLED  == "cancelled"

VARIABLES
    upload_tasks,     \* TaskService.upload_tasks: id -> UploadTaskInfo
    analysis_tasks,   \* TaskService.analysis_tasks: id -> AnalysisTaskInfo
    disk,             \* content of data/tasks.json
    files,            \* outputs/: path -> rows of the CSV file
    exec,             \* per execute call: position and locals
    issued,           \* the ids uuid4 has returned so far
    now,              \* wall clock, in seconds
    conv,             \* what upload_and_convert_pdf has just returned
    reply,            \* what create_analysis_task_from_upload has just
                      \* returned, with the request it was given
    norm,             \* one analyze_image call: its input and what it returned
    upd               \* per caller: its call of an update or get function

vars == <<upload_tasks, analysis_tasks, disk, files, exec, issued, now, conv, reply,
          norm, upd>>

\* ------------------------------------------------------------ pure helpers
Min(a, b) == IF a < b THEN a ELSE b

IsPrefix(s, t) == Len(s) <= Len(t) /\ SubSeq(t, 1, Len(s)) = s

\* a progress computed as the percentage of images done, cut off at 90
ProgressOf_Percent(done, total_images) == Min((done * 100) \div total_images, 90)

\* int(((batch_start + i + 1) / total_images) * 90); the float product and
\* the integer quotient agree for every total_images up to 9
ProgressOf(done, total_images) == (done * 90) \div total_images

\* ------------------------------------------------------------- task store
\* json.dump(..., default=str) writes a datetime as its str() and None as
\* null; completed_at is TRUE in memory when the timestamp is set
IsoDate  == "2026-01-01 00:00:00"
JsonNull == "null"

DumpDate(d) == IF d THEN IsoDate ELSE JsonNull

\* a dump that writes the status as the name of the enumeration member
DumpTask_StatusAsName(task) ==
    [k \in DOMAIN task |->
        IF k = "completed_at" THEN DumpDate(task[k])
        ELSE IF k = "status" THEN "TaskStatus.member" ELSE task[k]]

\* task_info.dict() as json.dump writes it: the status by its value (the
\* enumeration is a str), numbers, strings and lists as they are
DumpTask(task) ==
    [k \in DOMAIN task |-> IF k = "completed_at" THEN DumpDate(task[k]) ELSE task[k]]

\* _save_tasks_to_file: the whole of both maps replaces the file content
SavedTasks(up, an) ==
    [upload_tasks |-> [id \in DOMAIN up |-> DumpTask(up[id])],
     analysis_tasks |-> [id \in DOMAIN an |-> DumpTask(an[id])]]

NewAnalysisTask(image_paths) ==
    [status |-> PENDING, progress |-> None, error_message |-> NoneStr,
     completed_at |-> FALSE, image_paths |-> image_paths,
     total_questions |-> None, processed_images |-> None]

\* a patch that leaves completed_at alone
PatchTask_NoCompletedAt(task, status, progress, error_message, fields) ==
    LET t1 == [task EXCEPT !.status = status]
        t2 == IF progress # None THEN [t1 EXCEPT !.progress = progress] ELSE t1
        t3 == IF error_message # NoneStr
              THEN [t2 EXCEPT !.error_message = error_message] ELSE t2
    IN  [k \in DOMAIN t3 |-> IF k \in DOMAIN fields THEN fields[k] ELSE t3[k]]

\* a patch that assigns error_message whatever was passed, None included
PatchTask_ClearsError(task, status, progress, error_message, fields) ==
    LET t1 == [task EXCEPT !.status = status]
        t2 == IF progress # None THEN [t1 EXCEPT !.progress = progress] ELSE t1
        t3 == [t2 EXCEPT !.error_message = error_message]
        t4 == IF status = COMPLETED THEN [t3 EXCEPT !.completed_at = TRUE] ELSE t3
    IN  [k \in DOMAIN t4 |-> IF k \in DOMAIN fields THEN fields[k] ELSE t4[k]]

\* the field patch of update_analysis_task_status; fields is the
\* record of keyword arguments, applied when the task has them. completed_at
\* records whether the timestamp is set (datetime.now()) or still None
PatchTask(task, status, progress, error_message, fields) ==
    LET t1 == [task EXCEPT !.status = status]
        t2 == IF progress # None THEN [t1 EXCEPT !.progress = progress] ELSE t1
        t3 == IF error_message # NoneStr
              THEN [t2 EXCEPT !.error_message = error_message] ELSE t2
        t4 == IF status = COMPLETED THEN [t3 EXCEPT !.completed_at = TRUE] ELSE t3
    IN  [k \in DOMAIN t4 |-> IF k \in DOMAIN fields THEN fields[k] ELSE t4[k]]

\* update_analysis_task_status, the definition in force (the second one of
\* the class body): patches the record in memory and returns
UpdateAnalysis(an, task_id, status, progress, error_message, fields) ==
    IF task_id \notin DOMAIN an THEN an
    ELSE [an EXCEPT ![task_id] =
            PatchTask(an[task_id], status, progress, error_message, fields)]

\* Optional[List[str]] = None
NoList == <<None>>

\* create_upload_task: the record as constructed (fields no operation reads
\* are left out)
NewUploadTask ==
    [status |-> PENDING, progress |-> 0, error_message |-> NoneStr,
     completed_at |-> FALSE, total_pages |-> None, processed_pages |-> None,
     output_dir |-> NoneStr, image_paths |-> NoList]

\* one call of update_upload_task_status: its arguments
Write(status, progress, error_message, fields) ==
    [status |-> status, progress |-> progress, error_message |-> error_message,
     fields |-> fields]

\* update_upload_task_status applied to the record: the same patch as for
\* analysis tasks
UpdateUpload(task, w) == PatchTask(task, w.status, w.progress, w.error_message, w.fields)

\* the PDFs handed to upload_and_convert_pdf, by what the PDF service does
\* with them: validate_file returns True or raises, get_pdf_info returns the
\* page count or 0 when it fails, convert_pdf_to_temp_images returns the
\* page images page_001.png .. page_n.png or an error
Pdfs == [valid : BOOLEAN, pages : 0 .. MaxImages, info_fails : BOOLEAN,
         convert_fails : BOOLEAN]

InvalidError == "PDF processing failed: invalid file"
ConvertError == "PDF conversion failed"

\* pdf_service.get_pdf_info(file_path)["total_pages"]
PdfInfoPages(pdf) == IF pdf.info_fails THEN 0 ELSE pdf.pages

\* pdf_service.convert_pdf_to_temp_images(file_path, task_id)
ConvertPdf(pdf, task_id) ==
    IF pdf.convert_fails
    THEN [success |-> FALSE, error |-> ConvertError, image_paths |-> <<>>,
          temp_dir |-> NoneStr]
    ELSE [success |-> TRUE, error |-> NoneStr,
          image_paths |-> [k \in 1 .. pdf.pages |-> k], temp_dir |-> task_id]

\* a failure branch that stores the image list of the converter's reply
UploadWrites_StoresReply(pdf, task_id) ==
    LET result == ConvertPdf(pdf, task_id)
    IN  IF ~pdf.valid
        THEN << Write(PROCESSING, 0, NoneStr, <<>>),
                Write(FAILED, None, InvalidError, <<>>) >>
        ELSE << Write(PROCESSING, 0, NoneStr, <<>>),
                Write(PROCESSING, 10, NoneStr, <<>>),
                Write(PROCESSING, 20, NoneStr, [total_pages |-> PdfInfoPages(pdf)]),
                IF ~result.success
                THEN Write(FAILED, None, result.error,
                           [image_paths |-> result.image_paths])
                ELSE Write(COMPLETED, 100, NoneStr,
                           [processed_pages |-> Len(result.image_paths),
                            output_dir |-> result.temp_dir,
                            image_paths |-> result.image_paths]) >>

\* upload_and_convert_pdf on a task that exists: the status updates it
\* makes, in order (lines 274-330)
UploadWrites(pdf, task_id) ==
    LET result == ConvertPdf(pdf, task_id)
    IN  IF ~pdf.valid
        THEN << Write(PROCESSING, 0, NoneStr, <<>>),
                Write(FAILED, None, InvalidError, <<>>) >>
        ELSE << Write(PROCESSING, 0, NoneStr, <<>>),
                Write(PROCESSING, 10, NoneStr, <<>>),
                Write(PROCESSING, 20, NoneStr, [total_pages |-> PdfInfoPages(pdf)]),
                IF ~result.success
                THEN Write(FAILED, None, result.error, <<>>)
                ELSE Write(COMPLETED, 100, NoneStr,
                           [processed_pages |-> Len(result.image_paths),
                            output_dir |-> result.temp_dir,
                            image_paths |-> result.image_paths]) >>

\* the record after the first n updates of a call
RECURSIVE ApplyWrites(_, _, _)
ApplyWrites(task, writes, n) ==
    IF n = 0 THEN task ELSE UpdateUpload(ApplyWrites(task, writes, n - 1), writes[n])

\* what upload_and_convert_pdf returns, with the statuses the task went
\* through during the call (the one before the call first) and the number
\* of calls made to the converter
NoConv ==
    [task_id |-> "", success |-> FALSE, error |-> NoneStr, statuses |-> <<>>,
     convert_calls |-> 0]

\* the requests of create_analysis_task_from_upload: the source upload task
\* and selected_image_indices, a list of 0-based indices or None
Indices == -1 .. MaxImages
IndexLists == UNION {[1 .. n -> Indices] : n \in 0 .. MaxSel}
Requests ==
    [source : UploadIds, selected : {TRUE}, indices : IndexLists]
        \cup [source : UploadIds, selected : {FALSE}, indices : {<<>>}]

NoReply ==
    [source |-> "", selected |-> FALSE, indices |-> <<>>, success |-> FALSE,
     error |-> NoneStr, task_id |-> ""]

\* a check that does not look at the status of the upload task
FromUploadError_IgnoresStatus(up, rq) ==
    IF rq.source \notin DOMAIN up THEN "upload task not found"
    ELSE IF up[rq.source].image_paths \in {NoList, <<>>} THEN "upload task has no images"
    ELSE IF /\ Len(rq.indices) > 0
            /\ \E j \in 1 .. Len(rq.indices) :
                   rq.indices[j] < 0 \/ rq.indices[j] > Len(up[rq.source].image_paths) - 1
         THEN "invalid image indices"
    ELSE NoneStr

\* lines 435-451: the error create_analysis_task_from_upload returns, or None
FromUploadError(up, rq) ==
    IF rq.source \notin DOMAIN up THEN "upload task not found"
    ELSE IF up[rq.source].status # COMPLETED THEN "upload task not completed"
    ELSE IF up[rq.source].image_paths \in {NoList, <<>>} THEN "upload task has no images"
    ELSE IF /\ Len(rq.indices) > 0
            /\ \E j \in 1 .. Len(rq.indices) :
                   rq.indices[j] < 0 \/ rq.indices[j] > Len(up[rq.source].image_paths) - 1
         THEN "invalid image indices"
    ELSE NoneStr

\* a selection that takes the empty list as a list: no image is selected
SelectedPaths_EmptyIsEmpty(image_paths, rq) ==
    IF rq.selected
    THEN [j \in 1 .. Len(rq.indices) |-> image_paths[rq.indices[j] + 1]]
    ELSE image_paths

\* lines 446-456: `if request.selected_image_indices:` is false for None and
\* for the empty list alike
SelectedPaths(image_paths, rq) ==
    IF Len(rq.indices) > 0
    THEN [j \in 1 .. Len(rq.indices) |-> image_paths[rq.indices[j] + 1]]
    ELSE image_paths

\* the value a synchronous call returns is with its caller for the step that
\* follows the call, and gone after that
Consumed == conv' = NoConv /\ reply' = NoReply

Extend(f, k, v) == [x \in DOMAIN f \cup {k} |-> IF x = k THEN v ELSE f[x]]
Remove(f, k)    == [x \in DOMAIN f \ {k} |-> f[x]]

\* ------------------------------------------------------------- result sink
Header == "header"

\* _initialize_csv_file: f"{task_name}_{task_id[:8]}_{timestamp}_questions.csv"
\* with timestamp = strftime("%Y%m%d_%H%M%S"); name and id prefix are fixed
\* per task, so the path is decided by the task and the clock second
CsvPath(task_id, clock) == <<task_id, clock>>

\* open(output_path, 'w') + writeheader(): creates or truncates
InitializeCsv(fs, path) == Extend(fs, path, <<Header>>)

\* a sink that opens the file with 'w' where the code opens it with 'a'
AppendCsv_Truncating(fs, path, questions) == Extend(fs, path, questions)

\* a sink that writes the header again on every append
AppendCsv_WithHeader(fs, path, questions) ==
    IF path \in DOMAIN fs THEN [fs EXCEPT ![path] = @ \o <<Header>> \o questions]
    ELSE Extend(fs, path, <<Header>> \o questions)

\* _append_questions_to_csv: open(csv_path, 'a'), one writerow per question
AppendCsv(fs, path, questions) ==
    IF path \in DOMAIN fs THEN [fs EXCEPT ![path] = @ \o questions]
    ELSE Extend(fs, path, questions)

\* an extractor failure that leaks a record into the batch
QuestionsOf_FailYields(image, outcome) ==
    IF outcome.failed THEN << <<image, 0>> >> ELSE [j \in 1 .. outcome.n |-> <<image, j>>]

\* the questions analyze_image returns for one image: n records, or the
\* empty list when the call failed (analyze_image catches every Exception)
QuestionsOf(image, outcome) ==
    IF outcome.failed THEN <<>> ELSE [j \in 1 .. outcome.n |-> <<image, j>>]

\* what one analyze_image call can do: fail, or yield n question records
Outcomes == {[failed |-> TRUE, n |-> 0]} \cup {[failed |-> FALSE, n |-> k] : k \in 0 .. MaxQ}

\* ------------------------------------------- vision extractor and normalizer
\* stop_after_attempt(3) on both call_*_api functions.
StopAfterAttempt == 3

Providers == {"openai", "qwen"}

\* What one attempt of call_*_api meets: the backend answers and
\* response.json() is returned ("ok"), the request fails or the backend
\* answers 5xx ("transient"), or the backend answers 4xx or with a body that
\* is not JSON ("rejected"); the last two raise inside the decorated
\* function.
Attempts == {"ok", "transient", "rejected"}

\* The backend's behaviour at the 1st, 2nd, ... attempt of one call; one
\* more than the decorator allows, so that an attempt it never makes exists.
AttemptSeqs == [1 .. StopAfterAttempt + 1 -> Attempts]

\* The decoded response: a mapping with a non-empty choices list, with an
\* output mapping, with a text entry, with none of these, or a list.
Shapes == {"choices", "output", "text", "other", "list"}

\* The content text, by what the code looks at.  fence: no code fence, a
\* fence that is closed, a fence that is never closed, or a fenced block
\* after some prose.  marker: the OCR field name the text contains, if any
\* (quoted, as a JSON key is).  body: what is inside the fence once removed:
\* a JSON object with a questions list, a JSON array, a JSON object without
\* questions, a JSON object whose questions is a number, a JSON number,
\* text that is not JSON, or nothing but whitespace.
Fences == {"none", "closed", "open", "prefixed"}
Markers == {"none", "start_char", "end_char", "text_content"}

\* One record of the list: a mapping or not; the first of the content keys
\* it has ("none": not one of the six); the value under that key; its
\* confidence entry (absent, a number, or a string that is no number).
\* The fields that are copied or defaulted without a failure path (answer,
\* explanation, knowledge_points, difficulty, source) are left out; the id
\* is absent, so that it defaults to the position.
ScalarRecord == [dict |-> FALSE, key |-> "none", content |-> "q", confidence |-> "absent"]

RecordsIn ==
    {r \in [dict : {TRUE}, key : {"content", "text", "none"},
            content : {"q", ""}, confidence : {"absent", "0.9", "high"}] :
        r.key = "none" => r.content = "q"}
    \cup {ScalarRecord}

RecordLists == UNION {[1 .. n -> RecordsIn] : n \in 0 .. MaxRecords}

BlankText == [body |-> "blank", records |-> <<>>, fence |-> "none", marker |-> "none"]

Texts ==
    [body : {"object", "array"}, records : RecordLists,
     fence : Fences, marker : Markers]
    \cup [body : {"no-questions", "bad-questions", "scalar", "garbage"},
          records : {<<>>}, fence : Fences, marker : Markers]
    \cup {BlankText}

GoodRecord == [dict |-> TRUE, key |-> "content", content |-> "q", confidence |-> "0.9"]

\* The texts every extractor behaviour is combined with.
SampleTexts ==
    {[body |-> "object", records |-> <<GoodRecord>>, fence |-> "none", marker |-> "none"],
     [body |-> "garbage", records |-> <<>>, fence |-> "none", marker |-> "none"],
     BlankText}

FirstOk == [k \in 1 .. StopAfterAttempt + 1 |-> "ok"]

\* The arguments and surroundings of one analyze_image call: every text
\* with a backend that answers at once, and every backend behaviour, key
\* setting, provider, response shape and image file with the sample texts.
Inputs ==
    [image_exists : {TRUE}, api_key : {TRUE}, provider : {"qwen"},
     shape : {"choices"}, attempts : {FirstOk}, text : Texts]
    \cup [image_exists : BOOLEAN, api_key : BOOLEAN, provider : Providers,
          shape : Shapes, attempts : AttemptSeqs, text : SampleTexts]

NoInput == [image_exists |-> FALSE, api_key |-> FALSE, provider |-> "none",
            shape |-> "none", attempts |-> <<>>, text |-> BlankText]

\* raised: an exception left the function; calls: requests posted.
NoResult == [raised |-> FALSE, questions |-> <<>>, calls |-> 0]

NoNorm == [input |-> NoInput, returned |-> FALSE, result |-> NoResult]

\* open(image_path, "rb") raises when the file does not exist.
EncodeImage_EmptyBytes(in) == TRUE
EncodeImage(in) == in.image_exists

\* call_openai_api / call_qwen_api under @retry: the missing key raises
\* before any request on every attempt; otherwise attempts are made until
\* one returns or StopAfterAttempt of them have raised.
CallApi_FourAttempts(in) ==
    IF ~in.api_key THEN [raised |-> TRUE, calls |-> 0]
    ELSE LET oks == {k \in 1 .. StopAfterAttempt + 1 : in.attempts[k] = "ok"}
         IN  IF oks = {} THEN [raised |-> TRUE, calls |-> StopAfterAttempt + 1]
             ELSE [raised |-> FALSE,
                   calls |-> CHOOSE k \in oks : \A j \in oks : k <= j]
CallApi(in) ==
    IF ~in.api_key THEN [raised |-> TRUE, calls |-> 0]
    ELSE LET oks == {k \in 1 .. StopAfterAttempt : in.attempts[k] = "ok"}
         IN  IF oks = {} THEN [raised |-> TRUE, calls |-> StopAfterAttempt]
             ELSE [raised |-> FALSE,
                   calls |-> CHOOSE k \in oks : \A j \in oks : k <= j]

\* Lines 223-260: "content" when a content text is taken from the response,
\* "return" when the function returns the empty list, "raise" when the
\* subscript response["choices"] raises.
ContentOf(in) ==
    IF in.provider = "openai"
    THEN IF in.shape = "choices" THEN "content" ELSE "raise"
    ELSE IF in.shape \in {"choices", "output", "text"} THEN "content" ELSE "return"

\* Line 268: the check on the raw content.
RawOcr_Never(t) == FALSE
RawOcr(t) == t.marker \in {"start_char", "end_char", "text_content"}

\* Lines 276-291: what json.loads is given.  A text that starts with the
\* fence loses it (by the regular expression when it is closed, line by line
\* when it is not); a fence after prose stays in the text.
Cleaned(t) ==
    CASE t.fence = "none"     -> t.body
      [] t.fence = "closed"   -> t.body
      [] t.fence = "open"     -> t.body
      [] t.fence = "prefixed" -> "garbage"

\* Lines 302-312.
QuestionsData_BareDropped(body, records) ==
    IF body = "object" THEN records ELSE <<>>
QuestionsData(body, records) ==
    CASE body = "array"        -> records
      [] body = "object"       -> records
      [] body = "no-questions" -> <<>>

\* q_data.get("confidence", 0.8)
Confidence(r) == IF r.confidence = "absent" THEN "0.8" ELSE r.confidence

\* float(...) of line 364 raises ValueError.
FloatRaises(c) == c \notin {"0.8", "0.9"}

\* The loop body, lines 320-375, appends a question.
Built(r) == r.dict /\ r.key # "none" /\ ~FloatRaises(Confidence(r))

QuestionOf(r, i) == [id |-> i, content |-> r.content, confidence |-> Confidence(r)]

RECURSIVE BuildQuestions_StopsAtInvalid(_, _)
BuildQuestions_StopsAtInvalid(records, i) ==
    IF i > Len(records) \/ ~Built(records[i]) THEN <<>>
    ELSE <<QuestionOf(records[i], i)>> \o BuildQuestions_StopsAtInvalid(records, i + 1)
RECURSIVE BuildQuestions(_, _)
BuildQuestions(records, i) ==
    IF i > Len(records) THEN <<>>
    ELSE (IF Built(records[i]) THEN <<QuestionOf(records[i], i)>> ELSE <<>>)
         \o BuildQuestions(records, i + 1)

\* Lines 262-384, inside the outer try.
Normalize(t) ==
    IF t.body = "blank" THEN [raised |-> FALSE, questions |-> <<>>]
    ELSE IF RawOcr(t) THEN [raised |-> FALSE, questions |-> <<>>]
    ELSE LET c == Cleaned(t)
         IN  IF c = "array" /\ t.marker = "start_char"
             THEN [raised |-> FALSE, questions |-> <<>>]
             ELSE IF c = "garbage"
             THEN [raised |-> FALSE, questions |-> <<>>]
             ELSE IF c = "scalar"
             THEN [raised |-> FALSE, questions |-> <<>>]
             ELSE IF c = "bad-questions"
             THEN [raised |-> TRUE, questions |-> <<>>]
             ELSE [raised |-> FALSE,
                   questions |-> BuildQuestions(QuestionsData(c, t.records), 1)]

\* Lines 216-384: the body of the outer try.
TryAnalyze(in) ==
    IF ~EncodeImage(in) THEN [raised |-> TRUE, questions |-> <<>>, calls |-> 0]
    ELSE LET api == CallApi(in)
         IN  IF api.raised
             THEN [raised |-> TRUE, questions |-> <<>>, calls |-> api.calls]
             ELSE IF ContentOf(in) = "raise"
             THEN [raised |-> TRUE, questions |-> <<>>, calls |-> api.calls]
             ELSE IF ContentOf(in) = "return"
             THEN [raised |-> FALSE, questions |-> <<>>, calls |-> api.calls]
             ELSE [raised |-> Normalize(in.text).raised,
                   questions |-> Normalize(in.text).questions,
                   calls |-> api.calls]

\* Lines 386-389: except Exception returns the empty list.
OuterHandler_Reraises(r) == r
OuterHandler(r) ==
    IF r.raised THEN [r EXCEPT !.raised = FALSE, !.questions = <<>>] ELSE r

AnalyzeImage(in) == OuterHandler(TryAnalyze(in))

\* ------------------------------------------- update and get calls: locals
\* the coroutines that call update_*_task_status or get_*_task
Callers == {"c1", "c2"}

\* pc: the statement the call is at; before: the record found at line 192 /
\* 514 (an observer); ret: the bool an update returns; found: what a get
\* returns (the record, or nothing for None)
IdleUpdate ==
    [pc |-> "idle", op |-> "", kind |-> "", task_id |-> "", status |-> "",
     progress |-> None, error_message |-> NoneStr, with_fields |-> FALSE,
     before |-> <<>>, ret |-> FALSE, found |-> <<>>]

NoCalls == [c \in Callers |-> IdleUpdate]

\* ----------------------------------------------------- execute: the locals
IdleCall ==
    [pc |-> "idle", task_id |-> "", image_paths |-> <<>>, batch_size |-> 0,
     batch_start |-> 0, i |-> 0, batch_questions |-> <<>>,
     all_questions_count |-> 0, csv_path |-> <<>>, wake |-> 0,
     success |-> FALSE, error |-> NoneStr,
     \* observers, not read by the code: the number of images whose
     \* extraction failed, and the images handed to analyze_image, in order
     failed_images |-> 0, analyzed |-> <<>>]

\* return {"success": False, "error": str(e)}; the frame is dropped, the
\* path of the file the call opened is kept for reference
ReturnFailure(c, msg) ==
    [IdleCall EXCEPT !.pc = "done", !.task_id = c.task_id, !.success = FALSE,
                     !.error = msg, !.image_paths = c.image_paths,
                     !.batch_start = c.batch_start, !.csv_path = c.csv_path]

\* return {"success": True, "task_id", "total_images", "total_questions", "csv_path"}
ReturnSuccess(c) ==
    [IdleCall EXCEPT !.pc = "done", !.task_id = c.task_id, !.success = TRUE,
                     !.image_paths = c.image_paths,
                     !.all_questions_count = c.all_questions_count,
                     !.csv_path = c.csv_path,
                     !.failed_images = c.failed_images,
                     !.analyzed = c.analyzed]

\* an except clause that drops the message
FailTask_NoMessage(an, c, msg) == UpdateAnalysis(an, c.task_id, FAILED, None, NoneStr, <<>>)

\* the except clause of execute_analysis_task_batch
FailTask(an, c, msg) == UpdateAnalysis(an, c.task_id, FAILED, None, msg, <<>>)

\* a completion that counts only the images whose extraction succeeded
CompleteTask_MinusFailed(an, c) ==
    UpdateAnalysis(an, c.task_id, COMPLETED, 100, NoneStr,
                   [total_questions |-> c.all_questions_count,
                    processed_images |-> Len(c.image_paths) - c.failed_images])

\* a completion that writes the wrong status
CompleteTask_StaysProcessing(an, c) ==
    UpdateAnalysis(an, c.task_id, PROCESSING, 100, NoneStr,
                   [total_questions |-> c.all_questions_count,
                    processed_images |-> Len(c.image_paths)])

\* a completion that adds the images of this call to the stored count
CompleteTask_Accumulates(an, c) ==
    UpdateAnalysis(an, c.task_id, COMPLETED, 100, NoneStr,
                   [total_questions |-> c.all_questions_count,
                    processed_images |->
                        IF c.task_id \in DOMAIN an /\ an[c.task_id].processed_images # None
                        THEN an[c.task_id].processed_images + Len(c.image_paths)
                        ELSE Len(c.image_paths)])

\* a completion that leaves a cancelled task cancelled
CompleteTask_KeepsCancelled(an, c) ==
    IF c.task_id \in DOMAIN an /\ an[c.task_id].status = CANCELLED THEN an
    ELSE UpdateAnalysis(an, c.task_id, COMPLETED, 100, NoneStr,
                        [total_questions |-> c.all_questions_count,
                         processed_images |-> Len(c.image_paths)])

\* lines 587-592: the task is completed
CompleteTask(an, c) ==
    UpdateAnalysis(an, c.task_id, COMPLETED, 100, NoneStr,
                   [total_questions |-> c.all_questions_count,
                    processed_images |-> Len(c.image_paths)])

\* execute calls are numbered in order of arrival: w2 is a call that arrives
\* after w1 has; a call is admitted while the images of all admitted calls
\* stay within MaxWork
Arrives(w, work) ==
    /\ exec[w].pc = "idle"
    /\ w = "w2" => exec["w1"].pc # "idle"
    /\ LET admitted == {v \in Workers : exec[v].csv_path # <<>>}
           load[S \in SUBSET Workers] ==
               IF S = {} THEN 0
               ELSE LET v == CHOOSE x \in S : TRUE
                    IN  Len(exec[v].image_paths) + load[S \ {v}]
       IN  load[admitted] + work <= MaxWork

Init ==
    /\ upload_tasks = <<>>
    /\ analysis_tasks = <<>>
    /\ disk = SavedTasks(<<>>, <<>>)
    /\ files = <<>>
    /\ exec = [w \in Workers |-> IdleCall]
    /\ issued = {}
    /\ now = 0
    /\ conv = NoConv
    /\ reply = NoReply
    /\ norm = NoNorm
    /\ upd = NoCalls

\* ------------------------------------------------------------- task store
\* create_analysis_task
CreateAnalysisTask(a, image_paths) ==
    /\ a \notin issued
    /\ issued' = issued \cup {a}
    /\ analysis_tasks' = Extend(analysis_tasks, a, NewAnalysisTask(image_paths))
    /\ disk' = SavedTasks(upload_tasks, analysis_tasks')
    /\ Consumed
    /\ UNCHANGED <<upd, norm, upload_tasks, files, exec, now>>

\* delete_task(task_id) -> bool: the record leaves the store and the store is
\* saved (the endpoints call it; the store's contract describes it)
DeleteTask(task_id) ==
    /\ task_id \in DOMAIN upload_tasks \cup DOMAIN analysis_tasks
    /\ upload_tasks' = Remove(upload_tasks, task_id)
    /\ analysis_tasks' = Remove(analysis_tasks, task_id)
    /\ disk' = SavedTasks(upload_tasks', analysis_tasks')
    /\ Consumed
    /\ UNCHANGED <<upd, norm, files, exec, issued, now>>

\* ------------------------------------------------------------ upload tasks
\* create_upload_task
CreateUploadTask(u) ==
    /\ u \notin issued
    /\ issued' = issued \cup {u}
    /\ upload_tasks' = Extend(upload_tasks, u, NewUploadTask)
    /\ disk' = SavedTasks(upload_tasks', analysis_tasks)
    /\ Consumed
    /\ UNCHANGED <<upd, norm, analysis_tasks, files, exec, now>>

\* upload_and_convert_pdf, lines 269-271: the task id is not in the store
UploadUnknown(u) ==
    /\ u \notin DOMAIN upload_tasks
    /\ conv' = [NoConv EXCEPT !.task_id = u, !.error = "task not found"]
    /\ reply' = NoReply
    /\ UNCHANGED <<upd, norm, upload_tasks, analysis_tasks, disk, files, exec, issued, now>>

\* upload_and_convert_pdf on a stored task. The coroutine has no await, so
\* the whole call is one step of the event loop; every update saves the store
UploadAndConvert(u, pdf) ==
    /\ u \in DOMAIN upload_tasks
    /\ LET writes == UploadWrites(pdf, u)
           last   == writes[Len(writes)]
       IN  /\ upload_tasks' =
                 [upload_tasks EXCEPT ![u] = ApplyWrites(upload_tasks[u], writes, Len(writes))]
           /\ conv' = [task_id |-> u,
                       success |-> last.status = COMPLETED,
                       error |-> last.error_message,
                       statuses |-> <<upload_tasks[u].status>>
                                       \o [j \in 1 .. Len(writes) |-> writes[j].status],
                       convert_calls |-> IF pdf.valid THEN 1 ELSE 0]
    /\ disk' = SavedTasks(upload_tasks', analysis_tasks)
    /\ reply' = NoReply
    /\ UNCHANGED <<upd, norm, analysis_tasks, files, exec, issued, now>>

\* create_analysis_task_from_upload, a request that is rejected
FromUploadRejected(rq) ==
    /\ FromUploadError(upload_tasks, rq) # NoneStr
    /\ reply' = [source |-> rq.source, selected |-> rq.selected, indices |-> rq.indices,
                 success |-> FALSE, error |-> FromUploadError(upload_tasks, rq),
                 task_id |-> ""]
    /\ conv' = NoConv
    /\ UNCHANGED <<upd, norm, upload_tasks, analysis_tasks, disk, files, exec, issued, now>>

\* create_analysis_task_from_upload, a request that is accepted: the
\* selected images are handed to create_analysis_task
CreateAnalysisFromUpload(a, rq) ==
    /\ FromUploadError(upload_tasks, rq) = NoneStr
    /\ a \notin issued
    /\ issued' = issued \cup {a}
    /\ analysis_tasks' =
          Extend(analysis_tasks, a,
                 NewAnalysisTask(SelectedPaths(upload_tasks[rq.source].image_paths, rq)))
    /\ disk' = SavedTasks(upload_tasks, analysis_tasks')
    /\ reply' = [source |-> rq.source, selected |-> rq.selected, indices |-> rq.indices,
                 success |-> TRUE, error |-> NoneStr, task_id |-> a]
    /\ conv' = NoConv
    /\ UNCHANGED <<upd, norm, upload_tasks, files, exec, now>>

\* ---------------------------------------------------------------- execute
\* lines 543-545: the task id is not in the store
ExecuteUnknown(w, task_id) ==
    /\ Arrives(w, 0)
    /\ task_id \notin DOMAIN analysis_tasks
    /\ exec' = [exec EXCEPT ![w] =
                  ReturnFailure([IdleCall EXCEPT !.task_id = task_id], "task not found")]
    /\ Consumed
    /\ UNCHANGED <<upd, norm, upload_tasks, analysis_tasks, disk, files, issued, now>>

\* lines 543-552, the sink cannot be opened: _initialize_csv_file raises
ExecuteSinkFail(w, task_id, batch_size) ==
    /\ task_id \in DOMAIN analysis_tasks
    /\ Arrives(w, 0)
    /\ LET c == [IdleCall EXCEPT !.task_id = task_id,
                                 !.image_paths = analysis_tasks[task_id].image_paths,
                                 !.batch_size = batch_size]
       IN  /\ analysis_tasks' = FailTask(analysis_tasks, c, "sink open failed")
           /\ exec' = [exec EXCEPT ![w] = ReturnFailure(c, "sink open failed")]
    /\ Consumed
    /\ UNCHANGED <<upd, norm, upload_tasks, disk, files, issued, now>>

\* a start that marks the task as processing before the loop
ExecuteStart_SetsProcessing(w, task_id, batch_size) ==
    /\ task_id \in DOMAIN analysis_tasks
    /\ Arrives(w, Len(analysis_tasks[task_id].image_paths))
    /\ LET path == CsvPath(task_id, now)
           c == [IdleCall EXCEPT !.task_id = task_id,
                                 !.image_paths = analysis_tasks[task_id].image_paths,
                                 !.batch_size = batch_size,
                                 !.csv_path = path]
       IN  /\ files' = InitializeCsv(files, path)
           /\ IF Len(c.image_paths) = 0
              THEN /\ analysis_tasks' = CompleteTask(analysis_tasks, c)
                   /\ exec' = [exec EXCEPT ![w] = ReturnSuccess(c)]
              ELSE /\ analysis_tasks' = UpdateAnalysis(analysis_tasks, task_id,
                                                       PROCESSING, 0, NoneStr, <<>>)
                   /\ exec' = [exec EXCEPT ![w] = [c EXCEPT !.pc = "analyze"]]
    /\ Consumed
    /\ UNCHANGED <<upd, norm, upload_tasks, disk, issued, now>>

\* lines 543-567: the sink is opened and the loop is entered; with no image
\* the loop body never runs and the task is completed at once
ExecuteStart(w, task_id, batch_size) ==
    /\ task_id \in DOMAIN analysis_tasks
    /\ Arrives(w, Len(analysis_tasks[task_id].image_paths))
    /\ LET path == CsvPath(task_id, now)
           c == [IdleCall EXCEPT !.task_id = task_id,
                                 !.image_paths = analysis_tasks[task_id].image_paths,
                                 !.batch_size = batch_size,
                                 !.csv_path = path]
       IN  /\ files' = InitializeCsv(files, path)
           /\ IF Len(c.image_paths) = 0
              THEN /\ analysis_tasks' = CompleteTask(analysis_tasks, c)
                   /\ exec' = [exec EXCEPT ![w] = ReturnSuccess(c)]
              ELSE /\ analysis_tasks' = analysis_tasks
                   /\ exec' = [exec EXCEPT ![w] = [c EXCEPT !.pc = "analyze"]]
    /\ Consumed
    /\ UNCHANGED <<upd, norm, upload_tasks, disk, issued, now>>

\* a batch that runs to the end of the list
BatchImages_WholeList(c) ==
    SubSeq(c.image_paths, c.batch_start + 1, Len(c.image_paths))

\* the images of the batch being processed: task.image_paths[batch_start:batch_end]
BatchImages(c) ==
    SubSeq(c.image_paths, c.batch_start + 1,
           Min(c.batch_start + c.batch_size, Len(c.image_paths)))

\* lines 564-572: analyze_image returns for image i of the batch; progress is
\* updated; what follows depends on whether the batch is finished
AfterImage(c, outcome) ==
    LET image == BatchImages(c)[c.i + 1]
    IN  [c EXCEPT !.batch_questions = @ \o QuestionsOf(image, outcome),
                  !.failed_images = @ + (IF outcome.failed THEN 1 ELSE 0),
                  !.analyzed = Append(@, image)]

\* a progress update that also stores the images still to be analyzed
ProgressUpdate_KeepsRemaining(an, c) ==
    UpdateAnalysis(an, c.task_id, PROCESSING,
                   ProgressOf(c.batch_start + c.i + 1, Len(c.image_paths)),
                   NoneStr,
                   [image_paths |-> SubSeq(c.image_paths, c.batch_start + c.i + 2,
                                           Len(c.image_paths))])

\* lines 570-572: the progress update after an image
ProgressUpdate(an, c) ==
    UpdateAnalysis(an, c.task_id, PROCESSING,
                   ProgressOf(c.batch_start + c.i + 1, Len(c.image_paths)),
                   NoneStr, <<>>)

\* an image that is not the last of its batch
AnalyzeNext(w, outcome) ==
    /\ exec[w].pc = "analyze"
    /\ exec[w].i + 1 < Len(BatchImages(exec[w]))
    /\ analysis_tasks' = ProgressUpdate(analysis_tasks, exec[w])
    /\ exec' = [exec EXCEPT ![w] = [AfterImage(exec[w], outcome) EXCEPT !.i = @ + 1]]
    /\ Consumed
    /\ UNCHANGED <<upd, norm, upload_tasks, disk, files, issued, now>>

\* the last image of a batch, lines 578-585: the batch is appended to the
\* sink and the call sleeps one second
AnalyzeFlush(w, outcome) ==
    /\ exec[w].pc = "analyze"
    /\ exec[w].i + 1 = Len(BatchImages(exec[w]))
    /\ LET c == AfterImage(exec[w], outcome)
       IN  /\ analysis_tasks' = ProgressUpdate(analysis_tasks, exec[w])
           /\ files' = AppendCsv(files, c.csv_path, c.batch_questions)
           /\ exec' = [exec EXCEPT ![w] =
                 [c EXCEPT !.pc = "sleep",
                           !.all_questions_count = @ + Len(c.batch_questions),
                           !.batch_questions = <<>>,   \* dead until reassigned
                           !.wake = now + 1]]
    /\ Consumed
    /\ UNCHANGED <<upd, norm, upload_tasks, disk, issued, now>>

\* what an append that raises leaves behind: the rows written before the error
FailedAppend(fs, path, questions, written) ==
    AppendCsv(fs, path, SubSeq(questions, 1, written))

\* the last image of a batch, the append raises after writing `written` rows:
\* the except clause marks the task failed
AnalyzeFlushFail(w, outcome, written) ==
    /\ exec[w].pc = "analyze"
    /\ exec[w].i + 1 = Len(BatchImages(exec[w]))
    /\ LET c == AfterImage(exec[w], outcome)
       IN  /\ written <= Len(c.batch_questions)
           /\ files' = FailedAppend(files, c.csv_path, c.batch_questions, written)
           /\ analysis_tasks' =
                 FailTask(ProgressUpdate(analysis_tasks, exec[w]), c, "sink append failed")
           /\ exec' = [exec EXCEPT ![w] = ReturnFailure(c, "sink append failed")]
    /\ Consumed
    /\ UNCHANGED <<upd, norm, upload_tasks, disk, issued, now>>

\* range(0, total_images, batch_size): is there another batch
MoreBatches(c) == c.batch_start < Len(c.image_paths)

\* asyncio.sleep(1) returns: the next batch starts, or the loop ends and the
\* task is completed (lines 587-600)
SleepReturn(w) ==
    /\ exec[w].pc = "sleep"
    /\ now >= exec[w].wake
    /\ LET c == [exec[w] EXCEPT !.batch_start = @ + exec[w].batch_size,
                                !.i = 0, !.batch_questions = <<>>]
       IN  IF MoreBatches(c)
           THEN /\ exec' = [exec EXCEPT ![w] = [c EXCEPT !.pc = "analyze"]]
                /\ analysis_tasks' = analysis_tasks
           ELSE /\ exec' = [exec EXCEPT ![w] = ReturnSuccess(c)]
                /\ analysis_tasks' = CompleteTask(analysis_tasks, c)
    /\ Consumed
    /\ UNCHANGED <<upd, norm, upload_tasks, disk, files, issued, now>>

\* a second passes. Only the second a file was opened in and the end of a
\* sleep are read from the clock, so a tick that changes neither is left out
Tick ==
    /\ \/ \E path \in DOMAIN files : path[2] = now
       \/ \E w \in Workers : exec[w].pc = "sleep" /\ exec[w].wake > now
    /\ now' = now + 1
    /\ Consumed
    /\ UNCHANGED <<upd, norm, upload_tasks, analysis_tasks, disk, files, exec, issued>>

Next ==
    \/ \E a \in AnalysisIds, p \in ImageLists : CreateAnalysisTask(a, p)
    \/ \E t \in AnalysisIds : DeleteTask(t)
    \/ \E w \in Workers, a \in AnalysisIds : ExecuteUnknown(w, a)
    \/ \E w \in Workers, a \in AnalysisIds, b \in BatchSizes : ExecuteSinkFail(w, a, b)
    \/ \E w \in Workers, a \in AnalysisIds, b \in BatchSizes : ExecuteStart(w, a, b)
    \/ \E w \in Workers, o \in Outcomes : AnalyzeNext(w, o)
    \/ \E w \in Workers, o \in Outcomes : AnalyzeFlush(w, o)
    \/ \E w \in Workers, o \in Outcomes, n \in 0 .. MaxQ : AnalyzeFlushFail(w, o, n)
    \/ \E w \in Workers : SleepReturn(w)
    \/ Tick

Spec == Init /\ [][Next]_vars

\* the upload flow: upload tasks are created, converted (any number of
\* times, with any PDF) and deleted, and analysis tasks are created from them
UploadNext ==
    \/ \E u \in UploadIds : CreateUploadTask(u)
    \/ \E u \in UploadIds : UploadUnknown(u)
    \/ \E u \in UploadIds, pdf \in Pdfs : UploadAndConvert(u, pdf)
    \/ \E rq \in Requests : FromUploadRejected(rq)
    \/ \E a \in AnalysisIds, rq \in Requests : CreateAnalysisFromUpload(a, rq)
    \/ \E t \in UploadIds \cup AnalysisIds : DeleteTask(t)

UploadSpec == Init /\ [][UploadNext]_vars

\* the PDFs of the pipeline: what validation and get_pdf_info do with a PDF
\* changes nothing an analysis task is created from
ReadablePdfs == {pdf \in Pdfs : pdf.valid /\ ~pdf.info_fails}

\* the extractor of the pipeline: an image fails or yields one question
FailOrOne == {o \in Outcomes : o.failed \/ o.n = 1}

\* the pipeline: an upload task is converted, an analysis task is created
\* from it and executed by one call, while the upload task is converted
\* again or deleted
PipelineNext ==
    \/ \E u \in UploadIds : CreateUploadTask(u)
    \/ \E u \in UploadIds, pdf \in ReadablePdfs : UploadAndConvert(u, pdf)
    \/ \E a \in AnalysisIds, rq \in Requests : CreateAnalysisFromUpload(a, rq)
    \/ \E t \in UploadIds \cup AnalysisIds : DeleteTask(t)
    \/ \E a \in AnalysisIds, b \in BatchSizes : ExecuteStart("w1", a, b)
    \/ \E o \in FailOrOne : AnalyzeNext("w1", o)
    \/ \E o \in FailOrOne : AnalyzeFlush("w1", o)
    \/ SleepReturn("w1")
    \/ Tick

PipelineSpec == Init /\ [][PipelineNext]_vars

\* ------------------------------------------------- analyze_image, one call
\* A service with an empty store to which one image is about to be given.
NormInit ==
    /\ upload_tasks = <<>>
    /\ analysis_tasks = <<>>
    /\ disk = SavedTasks(<<>>, <<>>)
    /\ files = <<>>
    /\ exec = [w \in Workers |-> IdleCall]
    /\ issued = {}
    /\ now = 0
    /\ conv = NoConv
    /\ reply = NoReply
    /\ norm \in {[input |-> in, returned |-> FALSE, result |-> NoResult] : in \in Inputs}
    /\ upd = NoCalls

\* analyze_image runs to its return (its awaits are the backend's attempts).
AnalyzeImageCall ==
    /\ norm.input \in Inputs
    /\ ~norm.returned
    /\ norm' = [norm EXCEPT !.returned = TRUE, !.result = AnalyzeImage(norm.input)]
    /\ UNCHANGED <<upload_tasks, analysis_tasks, disk, files, exec, issued, now,
                   conv, reply, upd>>

NormNext == AnalyzeImageCall

NormSpec == NormInit /\ [][NormNext]_vars

\* -------------------------------------------------- _load_tasks_from_file
\* The ids found in a tasks.json written by an earlier run.
StoredUploadIds   == {"u1"}
StoredAnalysisIds == {"a1", "a2"}

TaskStatuses == {PENDING, PROCESSING, COMPLETED, FAILED, CANCELLED}

\* A value of a section that is no mapping (a string, null, a number).
NotAMapping == [scalar |-> "oops"]

IsMapping(v) == "scalar" \notin DOMAIN v

\* a completed_at that datetime.fromisoformat rejects
BadDate == "not-a-date"

\* The persisted analysis records: as _save_tasks_to_file writes them, with
\* the optional entries missing, or corrupt: no mapping, a status outside
\* TaskStatus, no status, no image_paths, an unreadable completed_at.
StoredAnalysisRecords ==
    {DumpTask(NewAnalysisTask(<<1>>)),
     DumpTask([NewAnalysisTask(<<1, 2>>) EXCEPT !.status = COMPLETED, !.progress = 100,
         !.completed_at = TRUE, !.total_questions = 1, !.processed_images = 2]),
     [status |-> FAILED, image_paths |-> <<1>>],
     NotAMapping,
     DumpTask([NewAnalysisTask(<<1>>) EXCEPT !.status = "done"]),
     [image_paths |-> <<1>>, progress |-> 0],
     [status |-> PENDING, progress |-> 0],
     [DumpTask(NewAnalysisTask(<<1>>)) EXCEPT !.completed_at = BadDate]}

StoredUploadRecords ==
    {DumpTask(NewUploadTask),
     DumpTask([NewUploadTask EXCEPT !.status = COMPLETED, !.progress = 100,
         !.completed_at = TRUE, !.total_pages = 1, !.processed_pages = 1,
         !.output_dir = "u1", !.image_paths = <<1>>]),
     [status |-> PROCESSING],
     NotAMapping,
     DumpTask([NewUploadTask EXCEPT !.status = "done"]),
     [progress |-> 0]}

Sections(ids, records) == UNION {[s -> records] : s \in SUBSET ids}

\* What tasks.json can hold at startup: both sections, one of them no
\* mapping, the upload section missing, or a text that is not JSON.
Unreadable == [unreadable |-> TRUE]

StoredFiles ==
    [upload_tasks : Sections(StoredUploadIds, StoredUploadRecords) \cup {NotAMapping},
     analysis_tasks : Sections(StoredAnalysisIds, StoredAnalysisRecords) \cup {NotAMapping}]
    \cup [analysis_tasks : Sections(StoredAnalysisIds, StoredAnalysisRecords)]
    \cup {Unreadable}

\* task_data.get(...), datetime.fromisoformat and UploadTaskInfo(**task_data)
\* / AnalysisTaskInfo(**task_data) raise for a non-mapping, an unreadable
\* date, a missing required entry and a status outside the enumeration.
Validates(rec, required) ==
    /\ IsMapping(rec)
    /\ "completed_at" \in DOMAIN rec => rec.completed_at \in {JsonNull, IsoDate}
    /\ required \subseteq DOMAIN rec
    /\ rec.status \in TaskStatuses

\* lines 95-96: a completed_at string becomes a datetime, null stays None
ParseDate(v) == v = IsoDate

\* the model object: the persisted entries, the defaults for the others
WithDefaults(rec, defaults) ==
    [k \in DOMAIN defaults |->
        IF k \notin DOMAIN rec THEN defaults[k]
        ELSE IF k = "completed_at" THEN ParseDate(rec[k]) ELSE rec[k]]

UploadTaskInfo(rec) == WithDefaults(rec, NewUploadTask)

AnalysisTaskInfo(rec) == WithDefaults(rec, NewAnalysisTask(<<>>))

\* lines 89-101: one try per upload record
LoadUploads(section) ==
    LET ok == {id \in DOMAIN section : Validates(section[id], {"status"})}
    IN  [id \in ok |-> UploadTaskInfo(section[id])]

\* lines 104-117: one try per analysis record
LoadAnalyses_AllOrNothing(section) ==
    LET ok == {id \in DOMAIN section : Validates(section[id], {"status", "image_paths"})}
    IN  IF ok = DOMAIN section
        THEN [id \in ok |-> AnalysisTaskInfo(section[id])] ELSE <<>>
LoadAnalyses(section) ==
    LET ok == {id \in DOMAIN section : Validates(section[id], {"status", "image_paths"})}
    IN  [id \in ok |-> AnalysisTaskInfo(section[id])]

\* The maps after _load_tasks_from_file: the outer except ends the load at
\* json.load or at the .items() of a section that is no mapping, keeping
\* what was loaded before.
LoadTasksFromFile(file) ==
    IF "unreadable" \in DOMAIN file
    THEN [upload_tasks |-> <<>>, analysis_tasks |-> <<>>]
    ELSE LET up == IF "upload_tasks" \in DOMAIN file THEN file.upload_tasks ELSE <<>>
             an == file.analysis_tasks
         IN  IF ~IsMapping(up)
             THEN [upload_tasks |-> <<>>, analysis_tasks |-> <<>>]
             ELSE IF ~IsMapping(an)
             THEN [upload_tasks |-> LoadUploads(up), analysis_tasks |-> <<>>]
             ELSE [upload_tasks |-> LoadUploads(up), analysis_tasks |-> LoadAnalyses(an)]

\* A service about to be constructed over some tasks.json.
LoadInit ==
    /\ upload_tasks = <<>>
    /\ analysis_tasks = <<>>
    /\ disk \in StoredFiles
    /\ files = <<>>
    /\ exec = [w \in Workers |-> IdleCall]
    /\ issued = {}
    /\ now = 0
    /\ conv = NoConv
    /\ reply = NoReply
    /\ norm = NoNorm
    /\ upd = NoCalls

\* TaskService.__init__ calls _load_tasks_from_file on the empty maps.
LoadTasks ==
    /\ upload_tasks = <<>>
    /\ analysis_tasks = <<>>
    /\ upload_tasks' = LoadTasksFromFile(disk).upload_tasks
    /\ analysis_tasks' = LoadTasksFromFile(disk).analysis_tasks
    /\ UNCHANGED <<disk, files, exec, issued, now, conv, reply, norm, upd>>

LoadNext == LoadTasks

LoadSpec == LoadInit /\ [][LoadNext]_vars

\* ------------------------------------- update and get calls, by statement
UpdateKinds == {"upload", "analysis"}

UpdateStatuses == {PROCESSING, COMPLETED, FAILED}

\* **kwargs of an update call that passes some: one field of each kind of
\* task, so that each kind of task lacks one of them
Kwargs == [total_pages |-> 1, total_questions |-> 1]

\* the arguments of update_upload_task_status / update_analysis_task_status
UpdateRequests ==
    {rq \in [kind : UpdateKinds, task_id : UploadIds \cup AnalysisIds,
             status : UpdateStatuses, progress : {None, 50, 100},
             error_message : {NoneStr, "e"}, with_fields : BOOLEAN] :
        rq.task_id \in (IF rq.kind = "upload" THEN UploadIds ELSE AnalysisIds)}

\* self.upload_tasks / self.analysis_tasks
TasksOf(kind) == IF kind = "upload" THEN upload_tasks ELSE analysis_tasks

\* task.<attribute> = value on the record the call holds
SetTask(kind, task_id, rec) ==
    IF kind = "upload"
    THEN /\ upload_tasks' = [upload_tasks EXCEPT ![task_id] = rec]
         /\ UNCHANGED analysis_tasks
    ELSE /\ analysis_tasks' = [analysis_tasks EXCEPT ![task_id] = rec]
         /\ UNCHANGED upload_tasks

Running(c) == upd[c].pc \notin {"idle", "done"}

\* an update that awaits between its write of the status and the next one
Yields_AfterStatus(pc) == pc = "progress"

\* Does the call give up the event loop before the statement at pc: the
\* update functions are plain functions without an await.
Yields(pc) == FALSE

\* the event loop runs one coroutine until it awaits: caller c can run a
\* statement when no other call is between two statements
LoopFree(c) == \A d \in Callers \ {c} : Running(d) => Yields(upd[d].pc)

Quiet == \A d \in Callers : Running(d) => Yields(upd[d].pc)

CallFrame(rq, pc) ==
    [IdleUpdate EXCEPT !.pc = pc, !.op = "update", !.kind = rq.kind,
                       !.task_id = rq.task_id, !.status = rq.status,
                       !.progress = rq.progress,
                       !.error_message = rq.error_message,
                       !.with_fields = rq.with_fields]

\* an update that answers True for an id it does not know
UpdateUnknown_ReturnsTrue(c, rq) ==
    /\ upd[c].pc = "idle"
    /\ LoopFree(c)
    /\ rq.task_id \notin DOMAIN TasksOf(rq.kind)
    /\ upd' = [upd EXCEPT ![c] = [CallFrame(rq, "done") EXCEPT !.ret = TRUE]]
    /\ UNCHANGED <<upload_tasks, analysis_tasks, disk, files, exec, issued, now,
                   conv, reply, norm>>

\* lines 189-190 / 511-512: the id is not in the map, the call returns False
UpdateUnknown(c, rq) ==
    /\ upd[c].pc = "idle"
    /\ LoopFree(c)
    /\ rq.task_id \notin DOMAIN TasksOf(rq.kind)
    /\ upd' = [upd EXCEPT ![c] = [CallFrame(rq, "done") EXCEPT !.ret = FALSE]]
    /\ UNCHANGED <<upload_tasks, analysis_tasks, disk, files, exec, issued, now,
                   conv, reply, norm>>

\* lines 192 / 514: the record is taken from the map
UpdateBegin(c, rq) ==
    /\ upd[c].pc = "idle"
    /\ LoopFree(c)
    /\ rq.task_id \in DOMAIN TasksOf(rq.kind)
    /\ upd' = [upd EXCEPT ![c] =
                  [CallFrame(rq, "status") EXCEPT
                      !.before = <<TasksOf(rq.kind)[rq.task_id]>>]]
    /\ UNCHANGED <<upload_tasks, analysis_tasks, disk, files, exec, issued, now,
                   conv, reply, norm>>

\* lines 193 / 515: task.status = status
SetStatus(c) ==
    /\ upd[c].pc = "status"
    /\ LoopFree(c)
    /\ LET f == upd[c]
       IN  SetTask(f.kind, f.task_id,
                   [TasksOf(f.kind)[f.task_id] EXCEPT !.status = f.status])
    /\ upd' = [upd EXCEPT ![c].pc = "progress"]
    /\ UNCHANGED <<disk, files, exec, issued, now, conv, reply, norm>>

\* lines 196-197 / 518-519: if progress is not None
SetProgress(c) ==
    /\ upd[c].pc = "progress"
    /\ LoopFree(c)
    /\ LET f == upd[c]
       IN  IF f.progress # None
           THEN SetTask(f.kind, f.task_id,
                        [TasksOf(f.kind)[f.task_id] EXCEPT !.progress = f.progress])
           ELSE UNCHANGED <<upload_tasks, analysis_tasks>>
    /\ upd' = [upd EXCEPT ![c].pc = "error"]
    /\ UNCHANGED <<disk, files, exec, issued, now, conv, reply, norm>>

\* lines 198-199 / 520-521: if error_message is not None
SetError(c) ==
    /\ upd[c].pc = "error"
    /\ LoopFree(c)
    /\ LET f == upd[c]
       IN  IF f.error_message # NoneStr
           THEN SetTask(f.kind, f.task_id,
                        [TasksOf(f.kind)[f.task_id] EXCEPT
                            !.error_message = f.error_message])
           ELSE UNCHANGED <<upload_tasks, analysis_tasks>>
    /\ upd' = [upd EXCEPT ![c].pc = "completed"]
    /\ UNCHANGED <<disk, files, exec, issued, now, conv, reply, norm>>

\* lines 200-201 / 522-523: if status == TaskStatus.COMPLETED
SetCompletedAt(c) ==
    /\ upd[c].pc = "completed"
    /\ LoopFree(c)
    /\ LET f == upd[c]
       IN  IF f.status = COMPLETED
           THEN SetTask(f.kind, f.task_id,
                        [TasksOf(f.kind)[f.task_id] EXCEPT !.completed_at = TRUE])
           ELSE UNCHANGED <<upload_tasks, analysis_tasks>>
    /\ upd' = [upd EXCEPT ![c].pc = "fields"]
    /\ UNCHANGED <<disk, files, exec, issued, now, conv, reply, norm>>

\* lines 204-206 / 526-528: the keyword arguments the record has a field for
SetFields(c) ==
    /\ upd[c].pc = "fields"
    /\ LoopFree(c)
    /\ LET f == upd[c]
           t == TasksOf(f.kind)[f.task_id]
       IN  IF f.with_fields
           THEN SetTask(f.kind, f.task_id,
                        [k \in DOMAIN t |->
                            IF k \in DOMAIN Kwargs THEN Kwargs[k] ELSE t[k]])
           ELSE UNCHANGED <<upload_tasks, analysis_tasks>>
    /\ upd' = [upd EXCEPT ![c].pc = "return"]
    /\ UNCHANGED <<disk, files, exec, issued, now, conv, reply, norm>>

\* lines 208-211: the upload update saves the store and returns True;
\* line 530: the analysis update in force returns True
UpdateReturn(c) ==
    /\ upd[c].pc = "return"
    /\ LoopFree(c)
    /\ disk' = IF upd[c].kind = "upload"
               THEN SavedTasks(upload_tasks, analysis_tasks) ELSE disk
    /\ upd' = [upd EXCEPT ![c].pc = "done", ![c].ret = TRUE]
    /\ UNCHANGED <<upload_tasks, analysis_tasks, files, exec, issued, now,
                   conv, reply, norm>>

\* get_upload_task / get_analysis_task: dict.get(task_id)
GetTask(c, kind, task_id) ==
    /\ upd[c].pc = "idle"
    /\ LoopFree(c)
    /\ upd' = [upd EXCEPT ![c] =
                  [IdleUpdate EXCEPT
                      !.pc = "done", !.op = "get", !.kind = kind,
                      !.task_id = task_id,
                      !.found = IF task_id \in DOMAIN TasksOf(kind)
                                THEN <<TasksOf(kind)[task_id]>> ELSE <<>>]]
    /\ UNCHANGED <<upload_tasks, analysis_tasks, disk, files, exec, issued, now,
                   conv, reply, norm>>

\* tasks are created while two coroutines each make one call of the store
UpdateNext ==
    \/ \E u \in UploadIds : Quiet /\ CreateUploadTask(u)
    \/ \E a \in AnalysisIds, p \in ImageLists : Quiet /\ CreateAnalysisTask(a, p)
    \/ \E c \in Callers, rq \in UpdateRequests : UpdateUnknown(c, rq)
    \/ \E c \in Callers, rq \in UpdateRequests : UpdateBegin(c, rq)
    \/ \E c \in Callers : SetStatus(c)
    \/ \E c \in Callers : SetProgress(c)
    \/ \E c \in Callers : SetError(c)
    \/ \E c \in Callers : SetCompletedAt(c)
    \/ \E c \in Callers : SetFields(c)
    \/ \E c \in Callers : UpdateReturn(c)
    \/ \E c \in Callers, k \in UpdateKinds, t \in UploadIds \cup AnalysisIds :
           GetTask(c, k, t)

UpdateSpec == Init /\ [][UpdateNext]_vars

\* the event loop resumes every coroutine whose await has completed, every
\* extractor call returns or fails, and time passes
ExecStep(w) ==
    \/ \E o \in Outcomes : AnalyzeNext(w, o) \/ AnalyzeFlush(w, o)
    \/ \E o \in Outcomes, n \in 0 .. MaxQ : AnalyzeFlushFail(w, o, n)
    \/ SleepReturn(w)

\* one condition for the whole loop: while any call can step or time can pass,
\* something does (no assumption on which coroutine the loop picks)
FairSpec == Spec /\ WF_vars(Tick \/ \E w \in Workers : ExecStep(w))

\* ------------------------------------------------ cancelling while executing
\* update_analysis_task_status(task_id, TaskStatus.CANCELLED) as one call,
\* with the record it found kept in the caller's frame
CancelTask(c, task_id) ==
    /\ task_id \in DOMAIN analysis_tasks
    /\ analysis_tasks' = UpdateAnalysis(analysis_tasks, task_id, CANCELLED,
                                        None, NoneStr, <<>>)
    /\ upd' = [upd EXCEPT ![c] =
                  [IdleUpdate EXCEPT
                      !.pc = "done", !.op = "update", !.kind = "analysis",
                      !.task_id = task_id, !.status = CANCELLED, !.ret = TRUE,
                      !.before = <<analysis_tasks[task_id]>>]]
    /\ UNCHANGED <<upload_tasks, disk, files, exec, issued, now, conv, reply, norm>>

\* one execution of a task whose status is set to cancelled at any moment
CancelNext ==
    \/ \E a \in AnalysisIds, p \in ImageLists : CreateAnalysisTask(a, p)
    \/ \E a \in AnalysisIds : CancelTask("c1", a)
    \/ \E a \in AnalysisIds, b \in BatchSizes : ExecuteStart("w1", a, b)
    \/ \E o \in Outcomes : AnalyzeNext("w1", o)
    \/ \E o \in Outcomes : AnalyzeFlush("w1", o)
    \/ \E o \in Outcomes, n \in 0 .. MaxQ : AnalyzeFlushFail("w1", o, n)
    \/ SleepReturn("w1")
    \/ Tick

\* the extractor returns, the sleep ends and time passes
CancelSpec == Init /\ [][CancelNext]_vars /\ WF_vars(Tick \/ ExecStep("w1"))

\* ------------------------------------------------------------------ claims
InFlight(c) == c.pc \in {"analyze", "sleep"}

\* the step in which call w returns to its caller
Returns(w) == exec[w].pc # "done" /\ exec'[w].pc = "done"

SinkErrors == {"sink open failed", "sink append failed"}

\* the data rows of a CSV file: the rows after the header
DataRows(rows) == Len(rows) - 1

\* C1: after every mutating call of the store has returned, tasks.json holds
\* exactly the upload tasks and analysis tasks the store holds in memory.
C1_PersistedIsCurrent == disk = SavedTasks(upload_tasks, analysis_tasks)

\* C2: from one observation of an analysis task to the next, both with status
\* processing, its progress does not decrease.
C2_ProgressMonotone ==
    [][\A a \in DOMAIN analysis_tasks \cap DOMAIN analysis_tasks' :
         (analysis_tasks[a].status = PROCESSING /\ analysis_tasks'[a].status = PROCESSING)
             => analysis_tasks'[a].progress >= analysis_tasks[a].progress]_vars

\* C3: two execute calls on the same analysis task that both opened their
\* sink write to two different files.
C3_DistinctFiles ==
    \A v, w \in Workers :
        (v # w /\ exec[v].csv_path # <<>> /\ exec[w].csv_path # <<>>
              /\ exec[v].task_id = exec[w].task_id)
            => exec[v].csv_path # exec[w].csv_path

\* C4: when execute returns success, the total_questions stored on the task
\* is the sum of the batch sizes appended by the call, and that sum is the
\* number of data rows of the call's output file.
C4_TotalMatchesFile ==
    [][\A w \in Workers :
         (Returns(w) /\ exec'[w].success)
             => /\ exec'[w].task_id \in DOMAIN analysis_tasks'
                    => analysis_tasks'[exec'[w].task_id].total_questions
                           = exec'[w].all_questions_count
                /\ DataRows(files'[exec'[w].csv_path]) = exec'[w].all_questions_count]_vars

\* C5 as stated: after execute has returned success, processed_images of the
\* task is len(image_paths) minus the number of images whose extraction failed.
C5_ProcessedMinusFailed ==
    \A w \in Workers :
        (exec[w].pc = "done" /\ exec[w].success /\ exec[w].task_id \in DOMAIN analysis_tasks)
            => analysis_tasks[exec[w].task_id].processed_images
                   = Len(analysis_tasks[exec[w].task_id].image_paths) - exec[w].failed_images

\* C5 amended: after execute has returned success, processed_images of the
\* task (while it is in the store) is len(image_paths), failed images included.
C5_ProcessedIsAll ==
    \A w \in Workers :
        (exec[w].pc = "done" /\ exec[w].success /\ exec[w].task_id \in DOMAIN analysis_tasks)
            => analysis_tasks[exec[w].task_id].processed_images
                   = Len(analysis_tasks[exec[w].task_id].image_paths)

C5_Witness ==
    \E w \in Workers :
        /\ exec[w].pc = "done" /\ exec[w].success /\ exec[w].failed_images >= 1
        /\ exec[w].task_id \in DOMAIN analysis_tasks
        /\ analysis_tasks[exec[w].task_id].processed_images = Len(exec[w].image_paths)

\* the questions a call has collected so far
Collected(c) == c.all_questions_count + Len(c.batch_questions)

\* C6: an image whose extractor call fails adds no question and does not end
\* the call; a call with a failed image that runs to the end of its images
\* returns success, and leaves the task (if still stored) completed with
\* processed_images = len(image_paths).
C6_FailedImageIsSkipped ==
    [][\A w \in Workers :
         /\ (exec[w].pc = "analyze" /\ exec'[w].failed_images = exec[w].failed_images + 1)
                => /\ Collected(exec'[w]) = Collected(exec[w])
                   /\ InFlight(exec'[w])
         /\ (exec[w].pc = "analyze" /\ Returns(w)) => exec'[w].error \in SinkErrors
         /\ (InFlight(exec[w]) /\ Returns(w) /\ exec[w].failed_images >= 1
                /\ exec'[w].error \notin SinkErrors)
                => /\ exec'[w].success
                   /\ exec'[w].all_questions_count = exec[w].all_questions_count
                   /\ exec'[w].task_id \in DOMAIN analysis_tasks'
                        => LET t == analysis_tasks'[exec'[w].task_id]
                           IN  /\ t.status = COMPLETED
                               /\ t.processed_images = Len(t.image_paths)]_vars

C6_Witness ==
    \E w \in Workers :
        /\ exec[w].pc = "done" /\ exec[w].success
        /\ exec[w].failed_images >= 1 /\ exec[w].all_questions_count >= 1
        /\ exec[w].task_id \in DOMAIN analysis_tasks
        /\ analysis_tasks[exec[w].task_id].status = COMPLETED
        /\ analysis_tasks[exec[w].task_id].total_questions = exec[w].all_questions_count

\* C7: every call that has entered its loop eventually returns, and unless the
\* sink raised it returns success with the task (if still stored) completed.
C7_ExecuteCompletes ==
    \A w \in Workers :
        InFlight(exec[w]) ~>
            /\ exec[w].pc = "done"
            /\ \/ exec[w].error \in SinkErrors
               \/ /\ exec[w].success
                  /\ exec[w].task_id \in DOMAIN analysis_tasks
                       => /\ analysis_tasks[exec[w].task_id].status = COMPLETED
                          /\ analysis_tasks[exec[w].task_id].progress = 100

C7_Witness ==
    \E w \in Workers :
        /\ exec[w].pc = "done" /\ exec[w].success
        /\ Len(exec[w].image_paths) >= 2
        /\ exec[w].failed_images = Len(exec[w].image_paths)
        /\ exec[w].task_id \in DOMAIN analysis_tasks
        /\ analysis_tasks[exec[w].task_id].status = COMPLETED

\* C8: a call that ends on a sink error returns success=false and leaves the
\* task (if still stored) failed with that error as error_message; a call on
\* an unknown task id returns success=false.
C8_SinkErrorFailsTask ==
    [][\A w \in Workers :
         Returns(w) =>
            /\ exec'[w].error \in SinkErrors
                 => /\ ~exec'[w].success
                    /\ exec'[w].task_id \in DOMAIN analysis_tasks'
                         => /\ analysis_tasks'[exec'[w].task_id].status = FAILED
                            /\ analysis_tasks'[exec'[w].task_id].error_message = exec'[w].error
            /\ exec'[w].task_id \notin DOMAIN analysis_tasks /\ exec[w].pc = "idle"
                 => ~exec'[w].success /\ exec'[w].error = "task not found"
            /\ ~exec'[w].success => exec'[w].error # NoneStr]_vars

C8_Witness ==
    \E v, w \in Workers :
        /\ exec[w].pc = "done" /\ exec[w].error = "sink append failed"
        /\ exec[w].task_id \in DOMAIN analysis_tasks
        /\ analysis_tasks[exec[w].task_id].status = FAILED
        /\ analysis_tasks[exec[w].task_id].error_message = "sink append failed"
        /\ exec[v].pc = "done" /\ exec[v].error = "task not found"

\* C9: a call whose task record has left the store by the time it ends does
\* not return success.
C9_RemovedTaskFailsCall ==
    [][\A w \in Workers :
         (InFlight(exec[w]) /\ Returns(w) /\ exec[w].task_id \notin DOMAIN analysis_tasks)
             => ~exec'[w].success]_vars

\* C10: the step in which a call fails after it flushed a batch removes no
\* file and leaves every row of every file in place.
C10_FailureKeepsRows ==
    [][\A w \in Workers :
         (InFlight(exec[w]) /\ Returns(w) /\ ~exec'[w].success /\ exec[w].batch_start >= 1)
             => \A path \in DOMAIN files :
                    path \in DOMAIN files' /\ IsPrefix(files[path], files'[path])]_vars

C10_Witness ==
    \E w \in Workers :
        /\ exec[w].pc = "done" /\ ~exec[w].success /\ exec[w].batch_start >= 1
        /\ exec[w].csv_path \in DOMAIN files
        /\ Len(files[exec[w].csv_path]) >= 2
        /\ files[exec[w].csv_path][1] = Header

\* the images call c has finished when its current extractor call returns
ImagesDone(c) == c.batch_start + c.i + 1

\* progress is set to 100 only by the update that completes the task
HundredOnlyOnCompletion ==
    \A a \in DOMAIN analysis_tasks' :
        (analysis_tasks'[a].progress = 100
            /\ (a \in DOMAIN analysis_tasks => analysis_tasks[a].progress # 100))
            => analysis_tasks'[a].status = COMPLETED

\* C11 as stated: after the k-th of n images of a call has been processed the
\* stored progress is min(floor(k / n * 100), 90), and progress becomes 100
\* only when the task is completed.
C11_ProgressIsPercentCapped ==
    [][/\ \A w \in Workers :
            (exec[w].pc = "analyze" /\ exec'[w] # exec[w]
                /\ exec[w].task_id \in DOMAIN analysis_tasks')
                => analysis_tasks'[exec[w].task_id].progress
                       = Min((ImagesDone(exec[w]) * 100) \div Len(exec[w].image_paths), 90)
       /\ HundredOnlyOnCompletion]_vars

\* C11 amended: after the k-th of n images of a call has been processed the
\* stored progress (of a task still in the store) is floor(k * 90 / n), and
\* progress becomes 100 only when the task is completed.
C11_ProgressIsNinetyScaled ==
    [][/\ \A w \in Workers :
            (exec[w].pc = "analyze" /\ exec'[w] # exec[w]
                /\ exec[w].task_id \in DOMAIN analysis_tasks')
                => /\ analysis_tasks'[exec[w].task_id].progress
                          = (ImagesDone(exec[w]) * 90) \div Len(exec[w].image_paths)
                   /\ analysis_tasks'[exec[w].task_id].progress <= 90
       /\ HundredOnlyOnCompletion]_vars

C11_Witness ==
    \E w \in Workers :
        /\ exec[w].pc = "analyze" /\ exec[w].i = 1 /\ Len(exec[w].image_paths) = 2
        /\ exec[w].task_id \in DOMAIN analysis_tasks
        /\ analysis_tasks[exec[w].task_id].status = PROCESSING
        /\ analysis_tasks[exec[w].task_id].progress = 45

\* C12: an analysis task whose status is completed has progress 100,
\* completed_at set, and total_questions and processed_images set.
C12_CompletedIsFilled ==
    \A a \in DOMAIN analysis_tasks :
        analysis_tasks[a].status = COMPLETED
            => /\ analysis_tasks[a].progress = 100
               /\ analysis_tasks[a].completed_at
               /\ analysis_tasks[a].total_questions # None
               /\ analysis_tasks[a].processed_images # None

C12_Witness ==
    \E a \in DOMAIN analysis_tasks :
        /\ analysis_tasks[a].status = COMPLETED
        /\ analysis_tasks[a].completed_at
        /\ analysis_tasks[a].total_questions >= 1
        /\ analysis_tasks[a].processed_images >= 2

\* C13: processed_images of an analysis task never decreases once it is set
\* and never exceeds len(image_paths).
C13_ProcessedBounded ==
    [][\A a \in DOMAIN analysis_tasks' :
         /\ analysis_tasks'[a].processed_images <= Len(analysis_tasks'[a].image_paths)
         /\ (a \in DOMAIN analysis_tasks /\ analysis_tasks[a].processed_images # None)
                => analysis_tasks'[a].processed_images >= analysis_tasks[a].processed_images]_vars

\* a task executed to the end twice
C13_Witness ==
    \E v, w \in Workers :
        /\ v # w /\ exec[v].pc = "done" /\ exec[w].pc = "done"
        /\ exec[v].success /\ exec[w].success
        /\ exec[v].task_id = exec[w].task_id
        /\ exec[v].task_id \in DOMAIN analysis_tasks
        /\ Len(exec[v].image_paths) >= 1
        /\ analysis_tasks[exec[v].task_id].processed_images = Len(exec[v].image_paths)

\* C20: every file starts with the one header row its open wrote and holds
\* no other header; an append adds exactly the rows of the questions it was
\* given, in their order, after the rows already there, and an append of no
\* question leaves the file as it was.
C20_HeaderThenRows ==
    [][/\ \A path \in DOMAIN files' :
            /\ files'[path][1] = Header
            /\ \A j \in 2 .. Len(files'[path]) : files'[path][j] # Header
       /\ \A w \in Workers :
            (exec[w].pc = "analyze" /\ exec'[w].pc = "sleep")
                => LET path  == exec[w].csv_path
                       added == exec'[w].all_questions_count - exec[w].all_questions_count
                   IN  /\ \E o \in Outcomes :
                              files'[path] = files[path] \o AfterImage(exec[w], o).batch_questions
                       /\ Len(files'[path]) = Len(files[path]) + added
                       /\ added = 0 => files' = files]_vars

\* a file the header followed by the rows of two images
C20_Witness ==
    \E w \in Workers :
        /\ exec[w].pc = "done" /\ exec[w].success
        /\ exec[w].csv_path \in DOMAIN files
        /\ files[exec[w].csv_path] = <<Header, <<1, 1>>, <<2, 1>>>>

\* C14: for a list of valid indices chosen on a completed upload task, the
\* created analysis task's image_paths is the upload task's images at those
\* indices, in the given order, and an execute call that runs to the end has
\* handed exactly those images, in that order, to the extractor.
C14_SelectionIsAnalyzed ==
    /\ (reply.success /\ reply.selected)
            => analysis_tasks[reply.task_id].image_paths
                   = [j \in 1 .. Len(reply.indices) |->
                         upload_tasks[reply.source].image_paths[reply.indices[j] + 1]]
    /\ \A w \in Workers :
            (exec[w].pc = "done" /\ exec[w].success)
                => /\ exec[w].analyzed = exec[w].image_paths
                   /\ exec[w].task_id \in DOMAIN analysis_tasks
                          => analysis_tasks[exec[w].task_id].image_paths = exec[w].analyzed

\* the request names a stored, completed upload task with at least one
\* image, and every selected index is within range
Creatable(rq) ==
    /\ rq.source \in DOMAIN upload_tasks
    /\ upload_tasks[rq.source].status = COMPLETED
    /\ upload_tasks[rq.source].image_paths # NoList
    /\ Len(upload_tasks[rq.source].image_paths) >= 1
    /\ \A j \in 1 .. Len(rq.indices) :
           rq.indices[j] \in 0 .. Len(upload_tasks[rq.source].image_paths) - 1

\* C15: create_analysis_task_from_upload creates a task exactly when the
\* referenced upload task exists, is completed, has at least one image and
\* every selected index is within range; then one analysis task is added,
\* and in every other case an error is returned and no task is added.
C15_FromUploadGuard ==
    [][reply' # NoReply =>
         /\ reply'.success <=> Creatable(reply')
         /\ reply'.success
               => /\ reply'.task_id \notin DOMAIN analysis_tasks
                  /\ DOMAIN analysis_tasks' = DOMAIN analysis_tasks \cup {reply'.task_id}
                  /\ \A a \in DOMAIN analysis_tasks : analysis_tasks'[a] = analysis_tasks[a]
         /\ ~reply'.success
               => /\ reply'.error # NoneStr
                  /\ analysis_tasks' = analysis_tasks]_vars

\* a task created from the second image of a completed upload task
C15_Witness ==
    /\ reply.success /\ reply.indices = <<1>>
    /\ upload_tasks[reply.source].status = COMPLETED
    /\ analysis_tasks[reply.task_id].image_paths = <<2>>

\* C16: the image_paths of an analysis task never changes after creation,
\* whatever is updated, executed, or done to its source upload task.
C16_ImagePathsFixed ==
    [][\A a \in DOMAIN analysis_tasks \cap DOMAIN analysis_tasks' :
         analysis_tasks'[a].image_paths = analysis_tasks[a].image_paths]_vars

\* a task executed to the end whose source was converted again to one page
C16_Witness ==
    \E a \in DOMAIN analysis_tasks, u \in DOMAIN upload_tasks :
        /\ analysis_tasks[a].status = COMPLETED
        /\ analysis_tasks[a].image_paths = <<1, 2>>
        /\ upload_tasks[u].status = COMPLETED
        /\ upload_tasks[u].image_paths = <<1>>

LegalUploadStep(s, t) ==
    \/ s = t
    \/ s = PENDING /\ t = PROCESSING
    \/ s = PROCESSING /\ t \in {COMPLETED, FAILED}

\* C17: every status change an upload_and_convert_pdf call makes on an
\* upload task is pending -> processing, processing -> completed or
\* processing -> failed; a completed or failed task changes status no more.
C17_UploadLifecycle ==
    \A j \in 1 .. Len(conv.statuses) - 1 :
        LegalUploadStep(conv.statuses[j], conv.statuses[j + 1])

\* C18: when the converter reports an error, the call has called it once,
\* returns success=false, and leaves the upload task failed with the
\* converter's message and its image_paths as it was: unset on a task that
\* was never converted.
C18_ConvertErrorFailsUpload ==
    [][(conv' # NoConv /\ conv'.error = ConvertError) =>
         /\ ~conv'.success
         /\ conv'.convert_calls = 1
         /\ conv'.task_id \in DOMAIN upload_tasks /\ conv'.task_id \in DOMAIN upload_tasks'
         /\ LET old == upload_tasks[conv'.task_id]
                new == upload_tasks'[conv'.task_id]
            IN  /\ new.status = FAILED
                /\ new.error_message = ConvertError
                /\ new.image_paths = old.image_paths
                /\ old.status = PENDING => new.image_paths = NoList]_vars

C18_Witness ==
    /\ conv.error = ConvertError /\ conv.statuses[1] = PENDING
    /\ upload_tasks[conv.task_id].status = FAILED
    /\ upload_tasks[conv.task_id].error_message = ConvertError
    /\ upload_tasks[conv.task_id].image_paths = NoList

\* C19: a completed upload task has total_pages and processed_pages equal
\* to the number of entries of its image_paths.
C19_PagesMatchImages ==
    \A u \in DOMAIN upload_tasks :
        upload_tasks[u].status = COMPLETED
            => /\ upload_tasks[u].total_pages = Len(upload_tasks[u].image_paths)
               /\ upload_tasks[u].processed_pages = Len(upload_tasks[u].image_paths)

\* ----------------------------------------------- claims on analyze_image
Unparsable(t) == t.body = "garbage" \/ t.fence = "prefixed"

\* the backend has answered within the attempts allowed and the answer has a
\* shape the provider's branch takes a content from
Answered(in) ==
    /\ in.image_exists
    /\ in.api_key
    /\ \E k \in 1 .. 3 : in.attempts[k] = "ok"
    /\ \/ in.provider = "openai" /\ in.shape = "choices"
       \/ in.provider = "qwen" /\ in.shape \in {"choices", "output", "text"}

\* the content is a JSON object with a questions list or a JSON array, not
\* hidden behind prose, and carries no OCR marker
RecordsReached(in) ==
    /\ Answered(in)
    /\ in.text.body \in {"object", "array"}
    /\ in.text.fence # "prefixed"
    /\ in.text.marker = "none"

Recognizable(r) == r.dict /\ r.key \in {"content", "text"}

ValidTypes(r) == r.dict /\ r.confidence # "high"

C23_OcrMarkerYieldsEmpty ==
    norm.returned /\ norm.input.text.marker # "none" =>
        /\ ~norm.result.raised
        /\ norm.result.questions = <<>>

\* a fenced object with a well-formed record and the marker end_char
C23_Witness ==
    /\ norm.returned
    /\ Answered(norm.input)
    /\ norm.input.text.marker = "end_char"
    /\ norm.input.text.fence = "closed"
    /\ norm.input.text.body = "object"
    /\ norm.input.text.records = <<GoodRecord>>
    /\ norm.result.questions = <<>>

\* C24: when the records r1..rn of a response are reached, the questions
\* returned are, in the records' order, those of exactly the records that
\* are mappings with a content key and a usable confidence, each with its
\* record's content: a record without content or with an invalid value
\* drops only itself.
C24_OnlyBadRecordsDropped ==
    norm.returned /\ RecordsReached(norm.input) =>
        LET recs == norm.input.text.records
            qs   == norm.result.questions
        IN  /\ {qs[j].id : j \in 1 .. Len(qs)}
                 = {i \in 1 .. Len(recs) : Recognizable(recs[i]) /\ ValidTypes(recs[i])}
            /\ \A j \in 1 .. Len(qs) - 1 : qs[j].id < qs[j + 1].id
            /\ \A j \in 1 .. Len(qs) : qs[j].content = recs[qs[j].id].content

\* the first record is dropped and the second is returned
C24_Witness ==
    /\ norm.returned
    /\ RecordsReached(norm.input)
    /\ Len(norm.input.text.records) = 2
    /\ ~(Recognizable(norm.input.text.records[1]) /\ ValidTypes(norm.input.text.records[1]))
    /\ Len(norm.result.questions) = 1
    /\ norm.result.questions[1].id = 2

\* C25: every record with a content key whose confidence is absent or is not
\* a number is returned as a question with confidence 0.8.
C25_ConfidenceDefaults ==
    norm.returned /\ RecordsReached(norm.input) =>
        LET recs == norm.input.text.records
            qs   == norm.result.questions
        IN  \A i \in 1 .. Len(recs) :
                Recognizable(recs[i]) /\ recs[i].confidence \in {"absent", "high"}
                    => \E j \in 1 .. Len(qs) :
                           qs[j].id = i /\ qs[j].confidence = "0.8"

\* C26: every question returned has a non-empty content.
C26_ContentNonEmpty ==
    norm.returned =>
        \A j \in 1 .. Len(norm.result.questions) :
            norm.result.questions[j].content # ""

\* C27: for records that carry no OCR marker, the response that is their bare
\* array yields the same questions as the response that wraps the same array
\* under the key questions.
C27_BareArraySameAsWrapped ==
    norm.returned /\ norm.input.text.body = "array" /\ norm.input.text.marker = "none" =>
        norm.result.questions
            = AnalyzeImage([norm.input EXCEPT !.text.body = "object"]).questions

\* a bare array from which a question is returned
C27_Witness ==
    /\ norm.returned
    /\ norm.input.text.body = "array"
    /\ norm.input.text.marker = "none"
    /\ norm.input.text.fence = "none"
    /\ norm.result.questions # <<>>

\* C29: one analyze_image call posts at most 3 requests for its image, and
\* exactly one when the first attempt returns a response, whatever the
\* response's shape and content are.
C29_AtMostThreeCalls ==
    norm.returned =>
        /\ norm.result.calls <= 3
        /\ norm.input.image_exists /\ norm.input.api_key
             /\ norm.input.attempts[1] = "ok" => norm.result.calls = 1

\* the first attempt returns a content that is not JSON
C29_Witness ==
    /\ norm.returned
    /\ norm.input.image_exists /\ norm.input.api_key
    /\ norm.input.attempts[1] = "ok"
    /\ Unparsable(norm.input.text)
    /\ norm.result.calls = 1
    /\ norm.result.questions = <<>>

\* ------------------------------------------------------ claims on startup
SectionOf(file, key) == IF key \in DOMAIN file THEN file[key] ELSE <<>>

\* the file is JSON and each section it has is a mapping of ids to records
SectionsAreMappings(file) ==
    /\ "unreadable" \notin DOMAIN file
    /\ "scalar" \notin DOMAIN SectionOf(file, "upload_tasks")
    /\ "scalar" \notin DOMAIN SectionOf(file, "analysis_tasks")

Corrupt(rec, required) ==
    \/ "scalar" \in DOMAIN rec
    \/ \E k \in required : k \notin DOMAIN rec
    \/ "status" \in DOMAIN rec /\ rec.status \notin TaskStatuses
    \/ "completed_at" \in DOMAIN rec /\ rec.completed_at = BadDate

AsPersisted(loaded, section, required) ==
    /\ DOMAIN loaded = {id \in DOMAIN section : ~Corrupt(section[id], required)}
    /\ \A id \in DOMAIN loaded :
           \A k \in DOMAIN section[id] : DumpTask(loaded[id])[k] = section[id][k]

\* C30: starting over a tasks.json whose sections are mappings, the store
\* holds after the load exactly the records that are not corrupt, each with
\* the values persisted for it; a corrupt record keeps only itself out.
C30_LoadsWhatParses ==
    [][SectionsAreMappings(disk) =>
          /\ AsPersisted(upload_tasks', SectionOf(disk, "upload_tasks"), {"status"})
          /\ AsPersisted(analysis_tasks', SectionOf(disk, "analysis_tasks"),
                         {"status", "image_paths"})]_vars

\* a1 is corrupt and a2 has been loaded
C30_Witness ==
    /\ SectionsAreMappings(disk)
    /\ DOMAIN disk.analysis_tasks = {"a1", "a2"}
    /\ Corrupt(disk.analysis_tasks["a1"], {"status", "image_paths"})
    /\ DOMAIN analysis_tasks = {"a2"}
    /\ analysis_tasks["a2"].status = COMPLETED

C32_UnknownIdChangesNothing ==
    [][\A c \in Callers :
          /\ upd[c].pc = "idle"
          /\ upd'[c].pc # "idle"
          /\ upd'[c].task_id \notin DOMAIN TasksOf(upd'[c].kind)
          => /\ upd'[c].pc = "done"
             /\ ~upd'[c].ret
             /\ upd'[c].found = <<>>
             /\ upload_tasks' = upload_tasks
             /\ analysis_tasks' = analysis_tasks
             /\ disk' = disk]_vars

\* an update of an analysis task that is not there has returned, while an
\* upload task is stored
C32_Witness ==
    /\ upd["c1"].pc = "done"
    /\ upd["c1"].op = "update"
    /\ upd["c1"].kind = "analysis"
    /\ upd["c1"].status = COMPLETED
    /\ ~upd["c1"].ret
    /\ analysis_tasks = <<>>
    /\ "u1" \in DOMAIN upload_tasks

SerialResult(first, second) ==
    LET apply(f, t) == PatchTask(t, f.status, f.progress, f.error_message,
                                 IF f.with_fields THEN Kwargs ELSE <<>>)
    IN  apply(second, apply(first, first.before[1]))

SameOutcome(t, s) ==
    /\ t.status = s.status
    /\ t.progress = s.progress
    /\ t.error_message = s.error_message
    /\ t.completed_at = s.completed_at

\* C35: when two update calls on the same task have both returned True, the
\* status, progress, error_message and completed_at of the record are those
\* of applying the two calls one after the other, in one of the two orders.
C35_UpdatesAreSerial ==
    \A c, d \in Callers :
        /\ c # d
        /\ upd[c].pc = "done" /\ upd[c].op = "update" /\ upd[c].ret
        /\ upd[d].pc = "done" /\ upd[d].op = "update" /\ upd[d].ret
        /\ upd[c].kind = upd[d].kind
        /\ upd[c].task_id = upd[d].task_id
        => LET t == TasksOf(upd[c].kind)[upd[c].task_id]
           IN  \/ SameOutcome(t, SerialResult(upd[c], upd[d]))
               \/ SameOutcome(t, SerialResult(upd[d], upd[c]))

\* two calls that differ in every argument have returned; the record has
\* the status and progress of the second
C35_Witness ==
    /\ upd["c1"].pc = "done" /\ upd["c1"].op = "update" /\ upd["c1"].ret
    /\ upd["c2"].pc = "done" /\ upd["c2"].op = "update" /\ upd["c2"].ret
    /\ upd["c1"].kind = "analysis" /\ upd["c2"].kind = "analysis"
    /\ upd["c1"].status = COMPLETED /\ upd["c1"].progress = 100
    /\ upd["c2"].status = PROCESSING /\ upd["c2"].progress = 50
    /\ upd["c2"].before[1].status = COMPLETED
    /\ analysis_tasks["a1"].status = PROCESSING
    /\ analysis_tasks["a1"].progress = 50
    /\ analysis_tasks["a1"].completed_at

\* C33: at any time at most one execution of a given analysis task is in
\* flight: no two execute calls are between their start and their return on
\* the same task.
C33_OneExecutionPerTask ==
    \A v, w \in Workers :
        (v # w /\ InFlight(exec[v]) /\ InFlight(exec[w]))
            => exec[v].task_id # exec[w].task_id

\* the execution of the task was in flight, with an image analyzed, when the
\* status was set to cancelled
CancelledInFlight ==
    /\ upd["c1"].pc = "done"
    /\ upd["c1"].status = CANCELLED
    /\ upd["c1"].before[1].status = PROCESSING

\* C34: a task whose status is set to cancelled while its execution is in
\* flight is executed to its end: the call returns, and unless the sink
\* failed it has analyzed every image and the task is completed.
C34_CancelDoesNotStop ==
    (InFlight(exec["w1"]) /\ analysis_tasks[exec["w1"].task_id].status = CANCELLED)
        ~> /\ exec["w1"].pc = "done"
           /\ exec["w1"].success
                  => /\ exec["w1"].analyzed = exec["w1"].image_paths
                     /\ analysis_tasks[exec["w1"].task_id].status = COMPLETED

\* an execution cancelled after its first image has analyzed both images
\* and returned, and the task is completed
C34_Witness ==
    /\ CancelledInFlight
    /\ exec["w1"].pc = "done"
    /\ exec["w1"].success
    /\ Len(exec["w1"].analyzed) = 2
    /\ upd["c1"].before[1].progress < 100
    /\ analysis_tasks["a1"].status = COMPLETED

\* the rows a step added at the end of file path
Appended(path) ==
    IF path \in DOMAIN files
    THEN SubSeq(files'[path], Len(files[path]) + 1, Len(files'[path]))
    ELSE files'[path]

\* C36: an execution with n images and batch size b analyzes the images one
\* by one in the order of image_paths, each once; the k-th image ends a batch
\* exactly when k is a multiple of b or k = n, the batch starts at the
\* multiple of b below k, and the step that ends a batch appends the
\* questions of the images of that batch, and nothing else, to the sink
\* before the next image is analyzed.
C36_BatchesInOrder ==
    [][\A w \in Workers :
          LET c == exec[w]
              d == exec'[w]
              n == Len(c.image_paths)
              b == c.batch_size
              k == Len(c.analyzed) + 1
          IN  /\ (c.pc = "analyze" /\ d # c) =>
                    /\ k <= n
                    /\ c.batch_start = ((k - 1) \div b) * b
                    /\ c.i = (k - 1) % b
                    /\ c.i = 0 => c.batch_questions = <<>>
                    /\ d.pc \in {"analyze", "sleep"}
                           => d.analyzed = Append(c.analyzed, c.image_paths[k])
                    /\ d.pc = "analyze" => (k % b # 0 /\ k < n /\ files' = files)
                    /\ d.pc = "sleep" =>
                           /\ k % b = 0 \/ k = n
                           /\ d.batch_questions = <<>>
                           /\ IsPrefix(files[c.csv_path], files'[c.csv_path])
                           /\ Len(Appended(c.csv_path))
                                  = d.all_questions_count - c.all_questions_count
                           /\ Len(Appended(c.csv_path)) >= Len(c.batch_questions)
                           /\ \A j \in 1 .. Len(Appended(c.csv_path)) :
                                  \E x \in c.batch_start + 1 .. k :
                                      Appended(c.csv_path)[j][1] = c.image_paths[x]
                    /\ d.pc = "done" => ~d.success
              /\ (c.pc = "sleep" /\ d.pc = "analyze") =>
                    /\ d.analyzed = c.analyzed
                    /\ Len(c.analyzed) < n
                    /\ d.batch_start = Len(c.analyzed)
              /\ (Returns(w) /\ d.success) => d.analyzed = d.image_paths]_vars

\* the first batch of one image is in the sink and the second batch is
\* about to start
C36_Witness ==
    /\ exec["w1"].pc = "analyze"
    /\ exec["w1"].batch_size = 1
    /\ exec["w1"].image_paths = <<1, 2>>
    /\ exec["w1"].analyzed = <<1>>
    /\ exec["w1"].batch_start = 1
    /\ exec["w1"].csv_path \in DOMAIN files
    /\ files[exec["w1"].csv_path] = <<Header, <<1, 1>> >>

\* C37: a request to the vision backend is posted again only after an
\* attempt that failed transiently: every attempt before the last request of
\* an analyze_image call was a network error or a 5xx response, so a 4xx
\* response is followed by no further request.
C37_RetryOnlyTransient ==
    (norm.returned /\ norm.input.image_exists /\ norm.input.api_key)
        => \A k \in 1 .. norm.result.calls - 1 : norm.input.attempts[k] = "transient"

\* C38: the step in which an execute call starts writes no status: when the
\* task has images the call is at its first image and the task record is as
\* it was before, and when the task has no image the same step returns
\* success with the task completed.
C38_StartKeepsStatus ==
    [][\A w \in Workers :
          (exec[w].pc = "idle" /\ exec'[w].pc # "idle"
                /\ exec'[w].task_id \in DOMAIN analysis_tasks)
              => /\ exec'[w].pc = "analyze"
                     => /\ analysis_tasks' = analysis_tasks
                        /\ exec'[w].analyzed = <<>>
                 /\ (exec'[w].pc = "done" /\ exec'[w].success)
                     => /\ exec'[w].image_paths = <<>>
                        /\ analysis_tasks'[exec'[w].task_id].status = COMPLETED]_vars

\* a first execution awaits its first image and the task is still pending
C38_Witness ==
    /\ exec["w1"].pc = "analyze"
    /\ exec["w1"].analyzed = <<>>
    /\ exec["w2"].pc = "idle"
    /\ exec["w1"].task_id \in DOMAIN analysis_tasks
    /\ analysis_tasks[exec["w1"].task_id].status = PENDING
    /\ Len(exec["w1"].image_paths) = 2

\* C39: no update clears error_message: a task that carries an error message
\* carries one after every step, and the message changes only in a step in
\* which an execution of the task fails and records its own message; a
\* successful execution leaves it on the completed task.
C39_ErrorMessageStays ==
    [][\A a \in DOMAIN analysis_tasks \cap DOMAIN analysis_tasks' :
          LET old == analysis_tasks[a].error_message
              new == analysis_tasks'[a].error_message
          IN  old # NoneStr =>
                  /\ new # NoneStr
                  /\ new # old =>
                        /\ analysis_tasks'[a].status = FAILED
                        /\ \E w \in Workers :
                              /\ Returns(w)
                              /\ ~exec'[w].success
                              /\ exec'[w].task_id = a
                              /\ exec'[w].error = new]_vars

\* an execution that failed is followed by one that succeeds: the task is
\* completed and carries the message of the failure
C39_Witness ==
    \E a \in DOMAIN analysis_tasks :
        /\ analysis_tasks[a].status = COMPLETED
        /\ analysis_tasks[a].progress = 100
        /\ analysis_tasks[a].error_message = "sink open failed"
        /\ exec["w1"].pc = "done" /\ ~exec["w1"].success
        /\ exec["w2"].pc = "done" /\ exec["w2"].success
        /\ Len(exec["w2"].analyzed) >= 1

====
